---- MODULE Spec2Model ----
(***************************************************************************)
(* Model of NathanMoes/RustyMineSweeper, src/src/lib.rs: the generic       *)
(* Board<T>, the Chomp game on Board<bool> and the Minesweeper game on     *)
(* Board<isize>.                                                           *)
(*                                                                         *)
(* A Board is the record [board, width, height]; board is the Vec of rows, *)
(* each row the Vec of cells.  The source indexes from 0, sequences from   *)
(* 1, so the cell (x,y) of the source is board[y+1][x+1].                  *)
(* An Option<(usize,usize)> is <<>> for None and <<a,b>> for Some((a,b)).  *)
(***************************************************************************)
EXTENDS Integers, Sequences, FiniteSets

\* ---- bounds of the model ------------------------------------------------
MaxW == 3
MaxH == 3
MaxPasses == 2      \* the count of loop passes saturates here
MaxMW == 4          \* Minesweeper boards are up to MaxMW x MaxMH
MaxMH == 3
MaxPlace == 2       \* calls of place_mines during setup
MaxMoves == 2       \* inputs to make_move and mark_square in one game
MaxGW == 2          \* boards of the generic Board<T> are up to MaxGW x MaxGH
MaxGH == 2
MaxOps == 3         \* calls made on the generic boards

\* ---- the state ----------------------------------------------------------
VARIABLES
    game,   \* the Board<bool> of the Chomp game
    op,     \* the last operation called on game
    arg,    \* its coordinates argument, as passed
    ret,    \* its return value, as a string
    out,    \* the Option<(usize,usize)> a search returned
    prev,   \* game as it was when the operation was called
    pc,     \* "idle", "ai_loop" while ai_make_move is inside its retry loop,
            \* or "panicked" once a panic has ended the program
    passes, \* passes of the loop of the last ai_make_move, up to MaxPasses
    mine,   \* the Board<isize> of the Minesweeper game
    mop,    \* the last operation called on mine
    marg,   \* the (row_index, col_index) handle_input computed for it
    mret,   \* its outcome, as a string
    mprev,  \* mine as it was when the operation was called
    phase,  \* "setup", "play", "lost" once a mine was selected, or
            \* "panicked" once a panic has ended the program
    placed, \* calls of place_mines made
    moves,  \* inputs taken by make_move and mark_square
    heap,   \* the row buffers (Vec<T>) allocated, by address
    grid,   \* a Board<T>; its board is the Vec of the addresses of its rows
    copy,   \* grid.clone(), or NoBoard before the clone is made
    ctor,   \* the constructor that made grid
    gop,    \* the last operation called on grid or copy
    gwho,   \* "grid" or "copy": the board it was called on
    garg,   \* its arguments
    gret,   \* "ok", or "panic" when the call panicked
    gout,   \* the Option<&T> get returned: <<>> or <<value>>
    gsnap,  \* the cells of grid and of copy when the operation was called
    gops,   \* calls made
    overflow_checks \* the build: TRUE when arithmetic overflow panics (the
                    \* debug profile), FALSE when it wraps (the release profile)

cvars == <<game, op, arg, ret, out, prev, pc, passes>>
mvars == <<mine, mop, marg, mret, mprev, phase, placed, moves>>
gvars == <<heap, grid, copy, ctor, gop, gwho, garg, gret, gout, gsnap, gops>>
vars == <<game, op, arg, ret, out, prev, pc, passes,
          mine, mop, marg, mret, mprev, phase, placed, moves,
          heap, grid, copy, ctor, gop, gwho, garg, gret, gout, gsnap, gops,
          overflow_checks>>

\* no board created: the game that is not being played
NoBoard == [board |-> <<>>, width |-> 0, height |-> 0]

None == <<>>
Some(a, b) == <<a, b>>
\* in place of the Option a function returns: the call panicked
Panic == <<"panic">>

\* self.board[y][x] is a cell the board has: indexing it does not panic
has_cell(self, x, y) ==
    /\ y < Len(self.board)
    /\ x < Len(self.board[y + 1])

\* A usize where the code comes to usize::MAX: usize::MAX is 2^w - 1 for the
\* pointer width w of the target, above every integer of the model, so it
\* is a value of its own and n is the value of any other usize.
usize(n) == [max |-> FALSE, n |-> n]
usize_MAX == [max |-> TRUE, n |-> 0]
\* a < b and a >= b on usize
usize_lt(a, b) == ~a.max /\ (b.max \/ a.n < b.n)
usize_ge(a, b) == ~usize_lt(a, b)

\* Board::boolean_board(5, 5), the board of test_get_some_move_for_winning_move
test_width == 5
test_height == 5

\* ---- handle_input ------------------------------------------------------
\* What is typed at a prompt: the row as the first byte of the trimmed line,
\* <<byte>>, or <<>> for an empty line; the column as the number the
\* trimmed line parses to, <<number>>, or <<>> when it does not parse.
ascii_a == 97
RowKeys(max_height) ==
    {<<>>, <<49>>, <<65>>} \cup { <<ascii_a + r>> : r \in 0..max_height }
ColKeys(max_width) ==
    {<<>>} \cup { <<n>> : n \in 0..(max_width + 1) }

\* handle_input: [tag |-> "Ok",    val |-> <<row_index, col_index>>],
\*               [tag |-> "Err",   val |-> <<>>], the Err of a message, or
\*               [tag |-> "panic", val |-> <<>>].
\* row_index is the u8 subtraction byte - b'a' and col_index the usize
\* subtraction number - 1: with overflow checks a negative difference
\* panics ("attempt to subtract with overflow"), without them it wraps,
\* the u8 by 256 and the usize 0 - 1 to usize::MAX.
handle_input(max_width, max_height, row, col, checks) ==
    LET byte == IF row = <<>> THEN ascii_a ELSE row[1]
        number == IF col = <<>> THEN 1 ELSE col[1]
    IN  IF checks /\ (byte < ascii_a \/ number < 1)
        THEN [tag |-> "panic", val |-> <<>>]
        ELSE LET row_index == IF byte >= ascii_a THEN byte - ascii_a
                              ELSE byte + 256 - ascii_a
                 col_index == IF number >= 1 THEN usize(number - 1)
                              ELSE usize_MAX
             IN  IF row_index >= max_height
                 THEN [tag |-> "Err", val |-> <<>>]
                 ELSE IF usize_ge(col_index, usize(max_width))
                 THEN [tag |-> "Err", val |-> <<>>]
                 ELSE [tag |-> "Ok", val |-> <<row_index, col_index.n>>]

\* the generic boards when no generic board is in use
GridIdle ==
    /\ heap = <<>> /\ grid = NoBoard /\ copy = NoBoard
    /\ ctor = "-" /\ gop = "-" /\ gwho = "-" /\ garg = <<>>
    /\ gret = "-" /\ gout = <<>> /\ gsnap = <<>> /\ gops = 0

\* ---- Board<bool> --------------------------------------------------------
boolean_board(width, height) ==
    [board  |-> [j \in 1..height |-> [i \in 1..width |-> TRUE]],
     width  |-> width,
     height |-> height]

clone(self) ==
    [board  |-> [j \in 1..Len(self.board) |-> self.board[j]],
     width  |-> self.width,
     height |-> self.height]

\* is_lost answering true whenever no square other than (0,0) is left
is_lostIgnoresOrigin(self) ==
    ~ \E y \in 0..(Len(self.board) - 1) :
         \E x \in 0..(Len(self.board[y + 1]) - 1) :
            self.board[y + 1][x + 1] /\ (x > 0 \/ y > 0)

\* is_lost panics when it comes to self.board[0][0] and the board has no
\* such cell
is_lost_panics(self) ==
    /\ ~ \E y \in 0..(Len(self.board) - 1) :
           \E x \in 0..(Len(self.board[y + 1]) - 1) :
              self.board[y + 1][x + 1] /\ (x > 0 \/ y > 0)
    /\ ~has_cell(self, 0, 0)

\* the value is_lost returns when it does not panic
is_lost(self) ==
    IF \E y \in 0..(Len(self.board) - 1) :
         \E x \in 0..(Len(self.board[y + 1]) - 1) :
            self.board[y + 1][x + 1] /\ (x > 0 \/ y > 0)
    THEN FALSE
    ELSE self.board[1][1]

\* chomp_ret with the bounds test off by one
chomp_retOffByOne(self, x, y) == ~(x > self.width \/ y > self.height)

\* the return value of chomp
chomp_ret(self, x, y) == ~(x >= self.width \/ y >= self.height)

\* chomp putting the square (0,0) back when it clears another square
chompRestoresOrigin(self, x, y) ==
    IF x >= self.width \/ y >= self.height THEN self
    ELSE [self EXCEPT !.board =
            [j \in 1..Len(self.board) |->
               [i \in 1..Len(self.board[j]) |->
                  IF j = 1 /\ i = 1 /\ (x > 0 \/ y > 0)
                  THEN TRUE
                  ELSE IF ((j - 1) >= y /\ (i - 1) = x) \/ ((j - 1) = y /\ (i - 1) >= x)
                  THEN FALSE ELSE self.board[j][i]]]]

\* chomp removing the whole rectangle below and right of (x, y)
chompRect(self, x, y) ==
    IF x >= self.width \/ y >= self.height THEN self
    ELSE [self EXCEPT !.board =
            [j \in 1..Len(self.board) |->
               [i \in 1..Len(self.board[j]) |->
                  IF (j - 1) >= y /\ (i - 1) >= x
                  THEN FALSE ELSE self.board[j][i]]]]

\* the board chomp leaves
chomp(self, x, y) ==
    IF x >= self.width \/ y >= self.height THEN self
    ELSE [self EXCEPT !.board =
            [j \in 1..Len(self.board) |->
               [i \in 1..Len(self.board[j]) |->
                  IF ((j - 1) >= y /\ (i - 1) = x) \/ ((j - 1) = y /\ (i - 1) >= x)
                  THEN FALSE ELSE self.board[j][i]]]]

RECURSIVE winning_move_is_none(_), winning_move_returns(_, _),
          winning_move_returnsInverted(_, _),
          winning_move_returnsTakesOrigin(_, _), winning_move_panics(_)

\* the squares of the double loop of winning_move in the order it takes them,
\* for row in 0..height, for col in 0..width: square k is (col, row)
winning_move_squares(posn) == 0..(posn.height * posn.width - 1)
winning_move_row(posn, k) == k \div posn.width
winning_move_col(posn, k) == k % posn.width

\* winning_move_returns that does not skip the square (0,0)
winning_move_returnsTakesOrigin(posn, k) ==
    /\ has_cell(posn, winning_move_col(posn, k), winning_move_row(posn, k))
    /\ posn.board[winning_move_row(posn, k) + 1][winning_move_col(posn, k) + 1]
    /\ winning_move_is_none(chomp(clone(posn), winning_move_col(posn, k),
                                  winning_move_row(posn, k)))

\* winning_move_returns with the test of the opponent's answer inverted
winning_move_returnsInverted(posn, k) ==
    /\ ~(winning_move_row(posn, k) = 0 /\ winning_move_col(posn, k) = 0)
    /\ has_cell(posn, winning_move_col(posn, k), winning_move_row(posn, k))
    /\ posn.board[winning_move_row(posn, k) + 1][winning_move_col(posn, k) + 1]
    /\ ~winning_move_is_none(chomp(clone(posn), winning_move_col(posn, k),
                                   winning_move_row(posn, k)))

\* the body of the loop, come to square k, returns Some((col, row)): the
\* square is not (0,0), it is playable, and the search of the answer to its
\* chomp, Self::winning_move(p), is_none()
winning_move_returns(posn, k) ==
    /\ ~(winning_move_row(posn, k) = 0 /\ winning_move_col(posn, k) = 0)
    /\ has_cell(posn, winning_move_col(posn, k), winning_move_row(posn, k))
    /\ posn.board[winning_move_row(posn, k) + 1][winning_move_col(posn, k) + 1]
    /\ winning_move_is_none(chomp(clone(posn), winning_move_col(posn, k),
                                  winning_move_row(posn, k)))

\* winning_move(posn).is_none(), for a search that does not panic: the
\* position is lost, or the loop runs to its end without a return
winning_move_is_none(posn) ==
    \/ is_lost(posn)
    \/ \A k \in winning_move_squares(posn) : ~winning_move_returns(posn, k)

\* every square the loop can index is a cell of the board; chomp keeps the
\* lengths of the rows, so this holds of every position of the search too
winning_move_in_bounds(posn) ==
    \A k \in winning_move_squares(posn) :
        has_cell(posn, winning_move_col(posn, k), winning_move_row(posn, k))

\* the body of the loop, come to square k, panics: posn.board[row][col] is
\* no cell of the board, or the search of the answer panics
winning_move_panics_at(posn, k) ==
    /\ ~(winning_move_row(posn, k) = 0 /\ winning_move_col(posn, k) = 0)
    /\ \/ ~has_cell(posn, winning_move_col(posn, k), winning_move_row(posn, k))
       \/ /\ posn.board[winning_move_row(posn, k) + 1][winning_move_col(posn, k) + 1]
          /\ winning_move_panics(chomp(clone(posn), winning_move_col(posn, k),
                                       winning_move_row(posn, k)))

\* the loop comes to square k: no square before it panics or returns
winning_move_reaches(posn, k) ==
    \A j \in 0..(k - 1) :
        ~winning_move_panics_at(posn, j) /\ ~winning_move_returns(posn, j)

\* winning_move panics: in is_lost, or at a square the loop comes to
winning_move_panics(posn) ==
    \/ is_lost_panics(posn)
    \/ /\ ~winning_move_in_bounds(posn)
       /\ ~is_lost(posn)
       /\ \E k \in winning_move_squares(posn) :
             winning_move_reaches(posn, k) /\ winning_move_panics_at(posn, k)

\* Some((col, row)) of square k
winning_move_some(posn, k) ==
    Some(winning_move_col(posn, k), winning_move_row(posn, k))

\* None, Some((col, row)) of the first square at which the loop returns, or
\* Panic
winning_move(posn) ==
    IF winning_move_panics(posn) THEN Panic
    ELSE IF winning_move_is_none(posn) THEN None
    ELSE winning_move_some(posn,
            CHOOSE k \in winning_move_squares(posn) :
                /\ winning_move_returns(posn, k)
                /\ \A j \in 0..(k - 1) : ~winning_move_returns(posn, j))

\* the squares of the rows of self from row y on, as (x_index, y_index) with
\* y_index counted from the first row after skip(y)
skip_enumerate(self, y) ==
    UNION { { <<x_index, y_index>> :
                x_index \in 0..(Len(self.board[y + y_index + 1]) - 1) } :
            y_index \in 0..(Len(self.board) - y - 1) }

count_affected_squares(self, x, y) ==
    Cardinality({ c \in skip_enumerate(self, y) :
        LET x_index == c[1]
            y_index == c[2]
        IN  /\ self.board[y + y_index + 1][x_index + 1]
            /\ ((x_index >= x /\ y_index = y) \/ (y_index >= y /\ x_index = x)) })

RECURSIVE find_smallest_chomp_scan(_, _, _, _, _),
          find_smallest_chomp_scanAnyCell(_, _, _, _, _)

\* find_smallest_chomp_scan without the test that the square is playable
find_smallest_chomp_scanAnyCell(self, y, x, best_chomp, min_affected) ==
    IF y >= Len(self.board) THEN best_chomp
    ELSE IF x >= Len(self.board[y + 1])
    THEN find_smallest_chomp_scan(self, y + 1, 0, best_chomp, min_affected)
    ELSE LET affected == count_affected_squares(self, x, y)
         IN  IF usize_lt(usize(affected), min_affected)
             THEN find_smallest_chomp_scan(self, y, x + 1, Some(x, y), usize(affected))
             ELSE find_smallest_chomp_scan(self, y, x + 1, best_chomp, min_affected)

\* the double loop of find_smallest_chomp over the rows the board has and the
\* squares each row has, from the square x of the row y on
find_smallest_chomp_scan(self, y, x, best_chomp, min_affected) ==
    IF y >= Len(self.board) THEN best_chomp
    ELSE IF x >= Len(self.board[y + 1])
    THEN find_smallest_chomp_scan(self, y + 1, 0, best_chomp, min_affected)
    ELSE LET square == self.board[y + 1][x + 1]
             affected == count_affected_squares(self, x, y)
         IN  IF square /\ usize_lt(usize(affected), min_affected)
             THEN find_smallest_chomp_scan(self, y, x + 1, Some(x, y), usize(affected))
             ELSE find_smallest_chomp_scan(self, y, x + 1, best_chomp, min_affected)

find_smallest_chomp(self) == find_smallest_chomp_scan(self, 0, 0, None, usize_MAX)

\* (b'a' + index as u8) as char, the letter ai_make_move prints for a row:
\* the cast keeps the low 8 bits of index, and the u8 addition overflows
\* when they are 159 or more
row_label_panics(index, checks) ==
    checks /\ ascii_a + (index % 256) > 255

\* ai_make_move_pass without the is_lost test before the fallback
ai_make_move_passNoLostTest(self, checks) ==
    LET wm == winning_move(clone(self)) IN
    IF wm = Panic
    THEN [game |-> self, ret |-> "panic"]
    ELSE IF wm # None
    THEN LET row_index == wm[1]
             col_index == wm[2]
         IN  IF ~chomp_ret(self, col_index, row_index)
             THEN [game |-> self, ret |-> "continue"]
             ELSE [game |-> chomp(self, col_index, row_index),
                   ret  |-> IF row_label_panics(row_index, checks)
                            THEN "panic" ELSE "Some"]
    ELSE LET fsc == find_smallest_chomp(self) IN
         IF fsc # None
         THEN [game |-> chomp(self, fsc[1], fsc[2]),
               ret  |-> IF row_label_panics(fsc[2], checks)
                        THEN "panic" ELSE "Some"]
         ELSE [game |-> self, ret |-> "None"]

\* one pass of the while loop of ai_make_move:
\* [game: the board it leaves, ret: "Some" | "None" | "continue" | "panic"].
\* After its chomp a pass computes the letter of the row it prints, which
\* panics in a build with overflow checks when the row is 159 or more; the
\* fallback ignores what its chomp returns.
ai_make_move_pass(self, checks) ==
    LET wm == winning_move(clone(self)) IN
    IF wm = Panic
    THEN [game |-> self, ret |-> "panic"]
    ELSE IF wm # None
    THEN LET row_index == wm[1]
             col_index == wm[2]
         IN  IF ~chomp_ret(self, col_index, row_index)
             THEN [game |-> self, ret |-> "continue"]
             ELSE [game |-> chomp(self, col_index, row_index),
                   ret  |-> IF row_label_panics(row_index, checks)
                            THEN "panic" ELSE "Some"]
    ELSE IF is_lost_panics(self)
         THEN [game |-> self, ret |-> "panic"]
         ELSE IF is_lost(self)
         THEN [game |-> self, ret |-> "None"]
         ELSE LET fsc == find_smallest_chomp(self) IN
              IF fsc # None
              THEN [game |-> chomp(self, fsc[1], fsc[2]),
                    ret  |-> IF row_label_panics(fsc[2], checks)
                             THEN "panic" ELSE "Some"]
              ELSE [game |-> self, ret |-> "None"]

\* ---- the Chomp game as a state machine ----------------------------------
Init ==
    /\ \E w \in 1..MaxW : \E h \in 1..MaxH : game = boolean_board(w, h)
    /\ op = "boolean_board"
    /\ arg = <<>>
    /\ ret = "-"
    /\ out = None
    /\ prev = game
    /\ pc = "idle"
    /\ passes = 0
    /\ overflow_checks \in BOOLEAN
    /\ mine = NoBoard /\ mprev = NoBoard
    /\ mop = "-" /\ marg = <<>> /\ mret = "-"
    /\ phase = "setup" /\ placed = 0 /\ moves = 0
    /\ GridIdle

\* board.chomp(x, y), called with any coordinates
Chomp(x, y) ==
    /\ pc = "idle"
    /\ game' = chomp(game, x, y)
    /\ op' = "chomp"
    /\ arg' = <<x, y>>
    /\ ret' = IF chomp_ret(game, x, y) THEN "true" ELSE "false"
    /\ out' = None
    /\ prev' = game
    /\ pc' = "idle"
    /\ passes' = 0
    /\ UNCHANGED <<mvars, gvars, overflow_checks>>

\* one input to Board<bool>::make_move: handle_input rejects a position out of
\* bounds, make_move one that is not playable, and both ask again; a panic
\* in handle_input ends the program
MakeMove(row, col) ==
    /\ pc = "idle"
    /\ LET in == handle_input(game.width, game.height, row, col, overflow_checks)
           row_index == in.val[1]
           col_index == in.val[2]
           panics == \/ in.tag = "panic"
                     \/ in.tag = "Ok" /\ ~has_cell(game, col_index, row_index)
           ok == ~panics /\ in.tag = "Ok" /\ game.board[row_index + 1][col_index + 1]
       IN  /\ game' = IF ok THEN chomp(game, col_index, row_index) ELSE game
           /\ ret' = IF panics THEN "panic"
                     ELSE IF ok THEN "moved" ELSE "rejected"
           /\ arg' = in.val
           /\ pc' = IF panics THEN "panicked" ELSE "idle"
    /\ op' = "make_move"
    /\ out' = None
    /\ prev' = game
    /\ passes' = 0
    /\ UNCHANGED <<mvars, gvars, overflow_checks>>

\* board.is_lost()
IsLost ==
    /\ pc = "idle"
    /\ ret' = IF is_lost_panics(game) THEN "panic"
              ELSE IF is_lost(game) THEN "true" ELSE "false"
    /\ pc' = IF is_lost_panics(game) THEN "panicked" ELSE "idle"
    /\ op' = "is_lost"
    /\ arg' = <<>>
    /\ out' = None
    /\ prev' = game
    /\ passes' = 0
    /\ UNCHANGED game
    /\ UNCHANGED <<mvars, gvars, overflow_checks>>

\* Board::winning_move(board.clone())
WinningMove ==
    /\ pc = "idle"
    /\ out' = winning_move(clone(game))
    /\ ret' = IF out' = Panic THEN "panic" ELSE "-"
    /\ pc' = IF out' = Panic THEN "panicked" ELSE "idle"
    /\ op' = "winning_move"
    /\ arg' = <<>>
    /\ prev' = game
    /\ passes' = 0
    /\ UNCHANGED game
    /\ UNCHANGED <<mvars, gvars, overflow_checks>>

\* board.find_smallest_chomp()
FindSmallestChomp ==
    /\ pc = "idle"
    /\ out' = find_smallest_chomp(game)
    /\ op' = "find_smallest_chomp"
    /\ arg' = <<>>
    /\ ret' = "-"
    /\ prev' = game
    /\ passes' = 0
    /\ UNCHANGED <<game, pc>>
    /\ UNCHANGED <<mvars, gvars, overflow_checks>>

\* board.ai_make_move(): the first pass of its loop
AiMakeMove ==
    /\ pc = "idle"
    /\ LET r == ai_make_move_pass(game, overflow_checks)
       IN  /\ game' = r.game
           /\ ret' = r.ret
           /\ pc' = IF r.ret = "continue" THEN "ai_loop"
                    ELSE IF r.ret = "panic" THEN "panicked" ELSE "idle"
    /\ op' = "ai_make_move"
    /\ arg' = <<>>
    /\ out' = winning_move(clone(game))
    /\ prev' = game
    /\ passes' = 1
    /\ UNCHANGED <<mvars, gvars, overflow_checks>>

\* the next pass of the loop of ai_make_move after a `continue`
AiRetry ==
    /\ pc = "ai_loop"
    /\ LET r == ai_make_move_pass(game, overflow_checks)
       IN  /\ game' = r.game
           /\ ret' = r.ret
           /\ pc' = IF r.ret = "continue" THEN "ai_loop"
                    ELSE IF r.ret = "panic" THEN "panicked" ELSE "idle"
    /\ passes' = IF passes < MaxPasses THEN passes + 1 ELSE passes
    /\ UNCHANGED <<op, arg, out, prev>>
    /\ UNCHANGED <<mvars, gvars, overflow_checks>>

Next ==
    \/ \E x \in 0..MaxW : \E y \in 0..MaxH : Chomp(x, y)
    \/ \E row \in RowKeys(MaxH) : \E col \in ColKeys(MaxW) : MakeMove(row, col)
    \/ IsLost
    \/ WinningMove
    \/ FindSmallestChomp
    \/ AiMakeMove
    \/ AiRetry

Spec == Init /\ [][Next]_vars

\* ---- Board<bool>: calls on a board as boolean_board made it -------------
\* Board::boolean_board(w, h): the board of the test of winning_move and
\* every smaller board
FreshInit ==
    /\ \E w \in 1..test_width : \E h \in 1..test_height :
          game = boolean_board(w, h)
    /\ op = "boolean_board"
    /\ arg = <<>>
    /\ ret = "-"
    /\ out = None
    /\ prev = game
    /\ pc = "idle"
    /\ passes = 0
    /\ overflow_checks \in BOOLEAN
    /\ mine = NoBoard /\ mprev = NoBoard
    /\ mop = "-" /\ marg = <<>> /\ mret = "-"
    /\ phase = "setup" /\ placed = 0 /\ moves = 0
    /\ GridIdle

\* the calls that leave the board as it was made
FreshNext ==
    \/ IsLost
    \/ WinningMove
    \/ FindSmallestChomp

FreshSpec == FreshInit /\ [][FreshNext]_vars

\* ---- Board<isize> -------------------------------------------------------
\* a cell holds -1 (hidden), -10 (mine), 10 (flagged) or the count it revealed
isize_board(width, height) ==
    [board  |-> [j \in 1..height |-> [i \in 1..width |-> -1]],
     width  |-> width,
     height |-> height]

saturating_sub(a, b) == IF a >= b THEN a - b ELSE 0

\* place_mines_round placing a mine on whatever cell is drawn first
place_mines_roundAnyCell(self) ==
    { [self EXCEPT !.board[c[2] + 1][c[1] + 1] = -10] :
        c \in (0..(self.width - 1)) \X (0..(self.height - 1)) }

\* the boards one round of the for loop of place_mines can leave when it
\* does not panic: it draws (x, y) in 0..width x 0..height until the cell
\* drawn is not a mine
place_mines_round(self) ==
    { [self EXCEPT !.board[c[2] + 1][c[1] + 1] = -10] :
        c \in { d \in (0..(self.width - 1)) \X (0..(self.height - 1)) :
                 has_cell(self, d[1], d[2]) /\ self.board[d[2] + 1][d[1] + 1] # -10 } }

\* a round of the for loop of place_mines can panic: it can draw a square
\* (x, y) of 0..width x 0..height that the board does not have; the draws
\* before it met mines and wrote nothing
place_mines_round_panics(self) ==
    \E d \in (0..(self.width - 1)) \X (0..(self.height - 1)) :
        ~has_cell(self, d[1], d[2])

RECURSIVE place_mines_loop(_, _)

\* what n more rounds can do from the board self: return and leave a board,
\* or panic in a round and leave the board with the mines of the rounds
\* before it
place_mines_loop(self, n) ==
    IF n = 0 THEN { [board |-> self, ret |-> "-"] }
    ELSE (IF place_mines_round_panics(self)
          THEN { [board |-> self, ret |-> "panic"] } ELSE {})
         \cup UNION { place_mines_loop(b, n - 1) : b \in place_mines_round(self) }

\* what a call of place_mines can do: leave a board, or panic
place_mines_outcomes(self) ==
    LET total_squares == self.width * self.height
        mines_count == total_squares \div 10
    IN  place_mines_loop(self, mines_count)

\* the boards place_mines can leave when it returns
place_mines(self) ==
    { r.board : r \in { o \in place_mines_outcomes(self) : o.ret = "-" } }

\* place_mines can panic
place_mines_panics(self) ==
    \E r \in place_mines_outcomes(self) : r.ret = "panic"

\* check_square counting only the four squares that share an edge, and itself
check_squareNoDiagonal(self, x, y) ==
    Cardinality({ c \in (saturating_sub(x, 1)..(x + 1)) \X (saturating_sub(y, 1)..(y + 1)) :
        LET x_index == c[1]
            y_index == c[2]
        IN  /\ ~(x_index >= self.width \/ y_index >= self.height)
            /\ (x_index = x \/ y_index = y)
            /\ self.board[y_index + 1][x_index + 1] = -10 })

\* check_square panics when a square of the block that is inside width x
\* height is not a cell the board has
check_square_panics(self, x, y) ==
    \E c \in (saturating_sub(x, 1)..(x + 1)) \X (saturating_sub(y, 1)..(y + 1)) :
        LET x_index == c[1]
            y_index == c[2]
        IN  /\ ~(x_index >= self.width \/ y_index >= self.height)
            /\ ~has_cell(self, x_index, y_index)

\* the count check_square returns when it does not panic
check_square(self, x, y) ==
    Cardinality({ c \in (saturating_sub(x, 1)..(x + 1)) \X (saturating_sub(y, 1)..(y + 1)) :
        LET x_index == c[1]
            y_index == c[2]
        IN  /\ ~(x_index >= self.width \/ y_index >= self.height)
            /\ self.board[y_index + 1][x_index + 1] = -10 })

RECURSIVE update_board_scan(_, _, _, _)

\* the double loop of update_board over the block around (x, y), from its
\* k-th square on in row-major order: [board: the board it leaves, panics:
\* whether it panicked]. A square inside width x height is written with its
\* check_square; when check_square panics, or the square is no cell of the
\* board, the loop panics and the squares written before stay written.
update_board_scan(self, x, y, k) ==
    LET x_lo == saturating_sub(x, 1)
        y_lo == saturating_sub(y, 1)
        nx == (x + 1) - x_lo + 1
        ny == (y + 1) - y_lo + 1
    IN  IF k >= nx * ny THEN [board |-> self, panics |-> FALSE]
        ELSE LET y_index == y_lo + (k \div nx)
                 x_index == x_lo + (k % nx)
             IN  IF x_index = x /\ y_index = y
                 THEN update_board_scan(self, x, y, k + 1)
                 ELSE IF x_index < self.width /\ y_index < self.height
                      THEN IF \/ check_square_panics(self, x_index, y_index)
                              \/ ~has_cell(self, x_index, y_index)
                           THEN [board |-> self, panics |-> TRUE]
                           ELSE update_board_scan(
                                  [self EXCEPT !.board[y_index + 1][x_index + 1] =
                                                   check_square(self, x_index, y_index)],
                                  x, y, k + 1)
                      ELSE update_board_scan(self, x, y, k + 1)

\* what update_board does: it writes the square selected, which panics
\* before any write when check_square panics or the square is no cell of the
\* board, and then the squares around it
update_board_outcome(self, x, y) ==
    IF check_square_panics(self, x, y) \/ ~has_cell(self, x, y)
    THEN [board |-> self, panics |-> TRUE]
    ELSE update_board_scan(
             [self EXCEPT !.board[y + 1][x + 1] = check_square(self, x, y)], x, y, 0)

\* update_board panics
update_board_panics(self, x, y) == update_board_outcome(self, x, y).panics

\* the board update_board leaves, when it returns and when it panics
update_board(self, x, y) == update_board_outcome(self, x, y).board

\* ---- the Minesweeper game as a state machine ----------------------------
MineInit ==
    /\ \E w \in 1..MaxMW : \E h \in 1..MaxMH : mine = isize_board(w, h)
    /\ mop = "isize_board"
    /\ marg = <<>>
    /\ mret = "-"
    /\ mprev = mine
    /\ phase = "setup"
    /\ placed = 0
    /\ moves = 0
    /\ overflow_checks \in BOOLEAN
    /\ game = NoBoard /\ prev = NoBoard
    /\ op = "-" /\ arg = <<>> /\ ret = "-" /\ out = None
    /\ pc = "idle" /\ passes = 0
    /\ GridIdle

\* board.place_mines(), once per level of difficulty before the first move
PlaceMines ==
    /\ phase = "setup"
    /\ placed < MaxPlace
    /\ \E r \in place_mines_outcomes(mine) :
          /\ mine' = r.board
          /\ mret' = r.ret
          /\ phase' = IF r.ret = "panic" THEN "panicked" ELSE phase
    /\ mop' = "place_mines"
    /\ marg' = <<>>
    /\ mprev' = mine
    /\ placed' = placed + 1
    /\ UNCHANGED moves
    /\ UNCHANGED <<cvars, gvars, overflow_checks>>

\* one input to Board<isize>::make_move: an input handle_input rejects is
\* asked again, a mine ends the game, any other square is revealed; a panic
\* in handle_input ends the program
Reveal(row, col) ==
    /\ phase \in {"setup", "play"}
    /\ placed >= 1
    /\ moves < MaxMoves
    /\ LET in == handle_input(mine.width, mine.height, row, col, overflow_checks)
           row_index == in.val[1]
           col_index == in.val[2]
       IN  /\ marg' = in.val
           /\ IF in.tag = "panic"
              THEN /\ mret' = "panic"
                   /\ UNCHANGED mine
                   /\ phase' = "panicked"
              ELSE IF in.tag = "Err"
              THEN /\ mret' = "rejected"
                   /\ UNCHANGED mine
                   /\ phase' = "play"
              ELSE IF ~has_cell(mine, col_index, row_index)
              THEN /\ mret' = "panic"
                   /\ UNCHANGED mine
                   /\ phase' = "panicked"
              ELSE IF mine.board[row_index + 1][col_index + 1] = -10
              THEN /\ mret' = "You lose"
                   /\ UNCHANGED mine
                   /\ phase' = "lost"
              ELSE IF update_board_panics(mine, col_index, row_index)
              THEN /\ mret' = "panic"
                   /\ mine' = update_board(mine, col_index, row_index)
                   /\ phase' = "panicked"
              ELSE /\ mret' = "Ok"
                   /\ mine' = update_board(mine, col_index, row_index)
                   /\ phase' = "play"
    /\ moves' = moves + 1
    /\ mop' = "make_move"
    /\ mprev' = mine
    /\ UNCHANGED placed
    /\ UNCHANGED <<cvars, gvars, overflow_checks>>

\* one input to mark_square: a square that is not -1 is refused and asked
\* again; a panic in handle_input ends the program
Mark(row, col) ==
    /\ phase \in {"setup", "play"}
    /\ placed >= 1
    /\ moves < MaxMoves
    /\ LET in == handle_input(mine.width, mine.height, row, col, overflow_checks)
           row_index == in.val[1]
           col_index == in.val[2]
       IN  /\ marg' = in.val
           /\ IF \/ in.tag = "panic"
                 \/ in.tag = "Ok" /\ ~has_cell(mine, col_index, row_index)
              THEN /\ mret' = "panic"
                   /\ UNCHANGED mine
                   /\ phase' = "panicked"
              ELSE IF in.tag = "Ok" /\ mine.board[row_index + 1][col_index + 1] = -1
              THEN /\ mret' = "Ok"
                   /\ mine' = [mine EXCEPT !.board[row_index + 1][col_index + 1] = 10]
                   /\ phase' = "play"
              ELSE /\ mret' = "rejected"
                   /\ UNCHANGED mine
                   /\ phase' = "play"
    /\ moves' = moves + 1
    /\ mop' = "mark_square"
    /\ mprev' = mine
    /\ UNCHANGED placed
    /\ UNCHANGED <<cvars, gvars, overflow_checks>>

MineNext ==
    \/ PlaceMines
    \/ \E row \in RowKeys(MaxMH) : \E col \in ColKeys(MaxMW) : Reveal(row, col)
    \/ \E row \in RowKeys(MaxMH) : \E col \in ColKeys(MaxMW) : Mark(row, col)

MineSpec == MineInit /\ [][MineNext]_vars

\* ---- Board<T> -----------------------------------------------------------
\* Board::new with T::default() = default_value
new(width, height, default_value) ==
    [board  |-> [j \in 1..height |-> [i \in 1..width |-> default_value]],
     width  |-> width,
     height |-> height]

\* Default::default(): no rows, width 5, height 4
default ==
    [board |-> <<>>, width |-> 5, height |-> 4]

\* get looking up the row by x and the cell by y
getTransposed(self, x, y) ==
    IF x < Len(self.board)
    THEN IF y < Len(self.board[x + 1]) THEN <<self.board[x + 1][y + 1]>> ELSE None
    ELSE None

\* get: Some(&cell) as <<cell>>, or None
get(self, x, y) ==
    IF y < Len(self.board)
    THEN IF x < Len(self.board[y + 1]) THEN <<self.board[y + 1][x + 1]>> ELSE None
    ELSE None

\* set panics when its bounds test passes and board[y][x] does not exist
set_panics(self, x, y) ==
    /\ y < self.height /\ x < self.width
    /\ ~(y < Len(self.board) /\ x < Len(self.board[y + 1]))

\* the board set leaves when it does not panic
set(self, x, y, value) ==
    IF y < self.height /\ x < self.width /\ ~set_panics(self, x, y)
    THEN [self EXCEPT !.board[y + 1][x + 1] = value]
    ELSE self

\* iter_mut hands the caller a &mut Vec<T> for every row of the board: the
\* caller can write the cells of a row and can change its length.
\* for row in self.iter_mut() { for element in row.iter_mut() { *element += 1 } }
iter_mut_add_one(self) ==
    [self EXCEPT !.board =
        [j \in 1..Len(self.board) |->
           [i \in 1..Len(self.board[j]) |-> self.board[j][i] + 1]]]

\* self.iter_mut().nth(y).unwrap().push(value)
iter_mut_push(self, y, value) ==
    [self EXCEPT !.board[y + 1] = Append(@, value)]

\* self.iter_mut().nth(y).unwrap().pop()
iter_mut_pop(self, y) ==
    [self EXCEPT !.board[y + 1] =
        IF Len(@) = 0 THEN @ ELSE SubSeq(@, 1, Len(@) - 1)]

\* A Board owns its rows: the Vec<Vec<T>> of a board in the heap is the Vec
\* of the addresses of its row buffers.  Rows gives the rows behind them.
Rows(h, self) ==
    [self EXCEPT !.board = [j \in 1..Len(self.board) |-> h[self.board[j]]]]

\* the heap after the rows of self are overwritten with the rows of value
WriteRows(h, self, value) ==
    [a \in 1..Len(h) |->
        IF \E j \in 1..Len(self.board) : self.board[j] = a
        THEN value.board[CHOOSE j \in 1..Len(self.board) : self.board[j] = a]
        ELSE h[a]]

\* the board that owns the rows of value, allocated after the rows of h
Allocate(h, value) ==
    [heap  |-> h \o value.board,
     board |-> [value EXCEPT !.board = [j \in 1..Len(value.board) |-> Len(h) + j]]]

\* clone pushing the rows themselves instead of row.clone()
clone_rowsShared(h, self) ==
    [heap |-> h, board |-> self]

\* clone in the heap: a new Vec of rows, each row.clone() a new buffer
clone_rows(h, self) ==
    Allocate(h, Rows(h, self))

\* ---- Board<T> as a state machine ---------------------------------------
\* The calls a program can make on a board through the interface of
\* Board<T>, on boards of each cell type: get, set, clone, the uses of
\* iter_mut, and chomp on a Board<bool>.  The two games are played through
\* their own operations, none of which calls Board::iter_mut.
\* the values a cell of grid is given: by its constructor, and by set
InitialValue(c) ==
    IF c = "isize_board" THEN -1 ELSE IF c = "boolean_board" THEN TRUE ELSE 0
OtherValue(c) ==
    IF c = "isize_board" THEN 3 ELSE IF c = "boolean_board" THEN FALSE ELSE 1
\* the k-th value of the type of the cells of a board made by c
ValueOf(c, k) == IF k = 0 THEN InitialValue(c) ELSE OtherValue(c)

Construct(c, w, h) ==
    IF c = "new" THEN new(w, h, 0)
    ELSE IF c = "isize_board" THEN isize_board(w, h)
    ELSE IF c = "boolean_board" THEN boolean_board(w, h)
    ELSE default

\* the cells of grid and of copy
Snapshot(h, g, c) == [grid |-> Rows(h, g), copy |-> Rows(h, c)]

GridInit ==
    /\ \E c \in {"new", "isize_board", "boolean_board", "default"} :
         \E w \in 1..MaxGW : \E h \in 1..MaxGH :
            /\ ctor = c
            /\ heap = Allocate(<<>>, Construct(c, w, h)).heap
            /\ grid = Allocate(<<>>, Construct(c, w, h)).board
    /\ copy = NoBoard
    /\ gop = ctor
    /\ gwho = "grid"
    /\ garg = <<>>
    /\ gret = "ok"
    /\ gout = <<>>
    /\ gsnap = Snapshot(heap, grid, copy)
    /\ gops = 0
    /\ overflow_checks \in BOOLEAN
    /\ game = NoBoard /\ prev = NoBoard
    /\ op = "-" /\ arg = <<>> /\ ret = "-" /\ out = None
    /\ pc = "idle" /\ passes = 0
    /\ mine = NoBoard /\ mprev = NoBoard
    /\ mop = "-" /\ marg = <<>> /\ mret = "-"
    /\ phase = "setup" /\ placed = 0 /\ moves = 0

\* the board a call is made on
Target(who) == IF who = "grid" THEN grid ELSE copy
\* a call can be made on who: no panic has ended the program, and copy exists
Callable(who) ==
    /\ gret # "panic"
    /\ gops < MaxOps
    /\ who = "copy" => copy # NoBoard

\* copy = grid.clone()
Clone ==
    /\ gret # "panic"
    /\ gops < MaxOps
    /\ copy = NoBoard
    /\ LET r == clone_rows(heap, grid)
       IN  /\ heap' = r.heap
           /\ copy' = r.board
    /\ gop' = "clone"
    /\ gwho' = "grid"
    /\ garg' = <<>>
    /\ gret' = "ok"
    /\ gout' = <<>>
    /\ gsnap' = Snapshot(heap, grid, copy)
    /\ gops' = gops + 1
    /\ UNCHANGED <<grid, ctor>>
    /\ UNCHANGED <<cvars, mvars, overflow_checks>>

\* who.get(x, y)
Get(who, x, y) ==
    /\ Callable(who)
    /\ gout' = get(Rows(heap, Target(who)), x, y)
    /\ gop' = "get"
    /\ gwho' = who
    /\ garg' = <<x, y>>
    /\ gret' = "ok"
    /\ gsnap' = Snapshot(heap, grid, copy)
    /\ gops' = gops + 1
    /\ UNCHANGED <<heap, grid, copy, ctor>>
    /\ UNCHANGED <<cvars, mvars, overflow_checks>>

\* who.set(x, y, value), value the k-th value of the cell type
Set(who, x, y, k) ==
    /\ Callable(who)
    /\ LET self == Rows(heap, Target(who))
           value == ValueOf(ctor, k)
       IN  /\ gret' = IF set_panics(self, x, y) THEN "panic" ELSE "ok"
           /\ heap' = WriteRows(heap, Target(who), set(self, x, y, value))
    /\ gop' = "set"
    /\ gwho' = who
    /\ garg' = <<x, y, ValueOf(ctor, k)>>
    /\ gout' = <<>>
    /\ gsnap' = Snapshot(heap, grid, copy)
    /\ gops' = gops + 1
    /\ UNCHANGED <<grid, copy, ctor>>
    /\ UNCHANGED <<cvars, mvars, overflow_checks>>

\* who.chomp(x, y), on a Board<bool>
ChompRows(who, x, y) ==
    /\ Callable(who)
    /\ ctor = "boolean_board"
    /\ LET self == Rows(heap, Target(who))
       IN  /\ gret' = "ok"
           /\ gout' = <<chomp_ret(self, x, y)>>
           /\ heap' = WriteRows(heap, Target(who), chomp(self, x, y))
    /\ gop' = "chomp"
    /\ gwho' = who
    /\ garg' = <<x, y>>
    /\ gsnap' = Snapshot(heap, grid, copy)
    /\ gops' = gops + 1
    /\ UNCHANGED <<grid, copy, ctor>>
    /\ UNCHANGED <<cvars, mvars, overflow_checks>>

\* the loops of the doc test of iter_mut on who, a board of numbers: every
\* cell += 1
IterMutAddOne(who) ==
    /\ Callable(who)
    /\ ctor # "boolean_board"
    /\ heap' = WriteRows(heap, Target(who),
                         iter_mut_add_one(Rows(heap, Target(who))))
    /\ gop' = "iter_mut"
    /\ gwho' = who
    /\ garg' = <<"add_one">>
    /\ gret' = "ok"
    /\ gout' = <<>>
    /\ gsnap' = Snapshot(heap, grid, copy)
    /\ gops' = gops + 1
    /\ UNCHANGED <<grid, copy, ctor>>
    /\ UNCHANGED <<cvars, mvars, overflow_checks>>

\* a caller pushes the k-th value of the cell type on row y of who, which it
\* got from who.iter_mut()
IterMutPush(who, y, k) ==
    /\ Callable(who)
    /\ y < Len(Target(who).board)
    /\ heap' = WriteRows(heap, Target(who),
                         iter_mut_push(Rows(heap, Target(who)), y, ValueOf(ctor, k)))
    /\ gop' = "iter_mut"
    /\ gwho' = who
    /\ garg' = <<"push", y, ValueOf(ctor, k)>>
    /\ gret' = "ok"
    /\ gout' = <<>>
    /\ gsnap' = Snapshot(heap, grid, copy)
    /\ gops' = gops + 1
    /\ UNCHANGED <<grid, copy, ctor>>
    /\ UNCHANGED <<cvars, mvars, overflow_checks>>

\* a caller pops the last cell of row y of who, which it got from
\* who.iter_mut()
IterMutPop(who, y) ==
    /\ Callable(who)
    /\ y < Len(Target(who).board)
    /\ heap' = WriteRows(heap, Target(who),
                         iter_mut_pop(Rows(heap, Target(who)), y))
    /\ gop' = "iter_mut"
    /\ gwho' = who
    /\ garg' = <<"pop", y>>
    /\ gret' = "ok"
    /\ gout' = <<>>
    /\ gsnap' = Snapshot(heap, grid, copy)
    /\ gops' = gops + 1
    /\ UNCHANGED <<grid, copy, ctor>>
    /\ UNCHANGED <<cvars, mvars, overflow_checks>>

GridNext ==
    \/ Clone
    \/ \E who \in {"grid", "copy"} : \E x \in 0..MaxGW : \E y \in 0..MaxGH :
          Get(who, x, y)
    \/ \E who \in {"grid", "copy"} : \E x \in 0..MaxGW : \E y \in 0..MaxGH :
          \E k \in 0..1 : Set(who, x, y, k)
    \/ \E who \in {"grid", "copy"} : \E x \in 0..MaxGW : \E y \in 0..MaxGH :
          ChompRows(who, x, y)
    \/ \E who \in {"grid", "copy"} : IterMutAddOne(who)
    \/ \E who \in {"grid", "copy"} : \E y \in 0..(MaxGH - 1) :
          \E k \in 0..1 : IterMutPush(who, y, k)
    \/ \E who \in {"grid", "copy"} : \E y \in 0..(MaxGH - 1) : IterMutPop(who, y)

GridSpec == GridInit /\ [][GridNext]_vars

\* ---- shapes used by the properties --------------------------------------
Cells(b) == (0..(b.width - 1)) \X (0..(b.height - 1))
At(b, c) == b.board[c[2] + 1][c[1] + 1]
InL(c, x, y) == (c[1] = x /\ c[2] >= y) \/ (c[2] = y /\ c[1] >= x)

\* the number of playable cells a chomp at c removes from b
Removed(b, c) == Cardinality({ d \in Cells(b) : At(b, d) /\ InL(d, c[1], c[2]) })
RowMajor(b, c) == c[2] * b.width + c[1]
OnlyOrigin(b) == \A c \in Cells(b) : At(b, c) = (c = <<0, 0>>)
Fresh(b) == \A c \in Cells(b) : At(b, c)
InBounds(b, c) == c[1] < b.width /\ c[2] < b.height

\* ---- Chomp: properties --------------------------------------------------

\* C1: an in-bounds chomp(x,y) returns true and sets to false exactly the
\* cells in column x at or below y and in row y at or right of x; every other
\* cell keeps its value.
C1_ChompLShape ==
    (op = "chomp" /\ InBounds(prev, arg)) =>
        /\ ret = "true"
        /\ \A c \in Cells(prev) :
              At(game, c) = IF InL(c, arg[1], arg[2]) THEN FALSE ELSE At(prev, c)

\* a chomp that removed something and left a playable cell strictly below and
\* right of its anchor
C1_Witness ==
    /\ op = "chomp" /\ InBounds(prev, arg) /\ game # prev
    /\ \E c \in Cells(game) : c[1] > arg[1] /\ c[2] > arg[2] /\ At(game, c)

\* C2, as stated: after chomp(0,0) every cell of the board is false.
C2_ChompOriginEmptiesBoard ==
    (op = "chomp" /\ arg = <<0, 0>>) => \A c \in Cells(game) : ~At(game, c)

\* C2, amended: chomp(0,0) sets every cell of row 0 and of column 0 to false
\* and leaves every cell with x > 0 and y > 0 as it was.
C2_ChompOriginClearsRowAndColumn ==
    (op = "chomp" /\ arg = <<0, 0>>) =>
        \A c \in Cells(prev) : At(game, c) = (c[1] > 0 /\ c[2] > 0 /\ At(prev, c))

C2_Witness ==
    /\ op = "chomp" /\ arg = <<0, 0>> /\ ret = "true"
    /\ \E c \in Cells(game) : At(game, c)

\* C3, as stated: when winning_move returns Some((x,y)) and ai_make_move
\* returns Some(()), the board is the previous board with chomp(x,y) applied.
C3_AiAppliesWinningMove ==
    (op = "ai_make_move" /\ out # None /\ ret = "Some") =>
        game = chomp(prev, out[1], out[2])

\* C4: on a freshly created all-true board, the 5x5 board of the test and
\* every smaller w x h board with at least two cells, winning_move returns
\* Some move.
C4_FreshBoardHasWinningMove ==
    (/\ op = "winning_move" /\ Fresh(prev)
     /\ prev.width <= test_width /\ prev.height <= test_height
     /\ prev.width * prev.height >= 2) =>
        (out # None /\ out # Panic)

\* winning_move has answered Some((1, 0)) on the board of the test
C4_Witness ==
    /\ op = "winning_move" /\ Fresh(prev)
    /\ prev.width = test_width /\ prev.height = test_height
    /\ out = Some(1, 0)

\* C5: where (0,0) is the only true cell, is_lost is true, winning_move is
\* None, and ai_make_move returns None and leaves the board as it was.
C5_OnlyOriginIsDefeat ==
    /\ OnlyOrigin(game) => (is_lost(game) /\ winning_move(clone(game)) = None)
    /\ (op = "ai_make_move" /\ OnlyOrigin(prev)) =>
          (pc = "idle" /\ ret = "None" /\ game = prev)

C5_Witness ==
    /\ op = "ai_make_move" /\ OnlyOrigin(prev) /\ ret = "None"
    /\ prev.width * prev.height >= 2

\* C6, as stated: find_smallest_chomp returns a true cell whose chomp removes
\* the fewest true cells, the first such cell in row-major order.
C6_SmallestChompIsMinimal ==
    (op = "find_smallest_chomp" /\ out # None) =>
        /\ InBounds(prev, out) /\ At(prev, out)
        /\ \A c \in Cells(prev) : At(prev, c) =>
              \/ Removed(prev, out) < Removed(prev, c)
              \/ /\ Removed(prev, out) = Removed(prev, c)
                 /\ RowMajor(prev, out) <= RowMajor(prev, c)

\* C7: find_smallest_chomp never returns a false cell, and returns None
\* exactly when no cell is true.
C7_SmallestChompIsPlayable ==
    op = "find_smallest_chomp" =>
        /\ out # None => (InBounds(prev, out) /\ At(prev, out))
        /\ (out = None) <=> (\A c \in Cells(prev) : ~At(prev, c))

C7_Witness ==
    /\ op = "find_smallest_chomp" /\ out # None
    /\ \E c \in Cells(prev) : ~At(prev, c) /\ RowMajor(prev, c) < RowMajor(prev, out)

\* C8: chomp(x,y) with x >= width or y >= height returns false and leaves
\* every cell unchanged.
C8_ChompOutOfBounds ==
    (op = "chomp" /\ ~InBounds(prev, arg)) => (ret = "false" /\ game = prev)

C8_Witness ==
    /\ op = "chomp" /\ ~InBounds(prev, arg) /\ ret = "false"
    /\ arg[1] = prev.width /\ arg[2] < prev.height

\* ---- Minesweeper: properties -------------------------------------------
Abs(n) == IF n < 0 THEN -n ELSE n
\* c lies in the 3x3 block centred on (x, y)
InBlock(c, x, y) == Abs(c[1] - x) <= 1 /\ Abs(c[2] - y) <= 1
Mines(b) == { c \in Cells(b) : At(b, c) = -10 }
\* a reveal move of the square (x, y), which was not a mine, has been made
Revealed(x, y) ==
    mop = "make_move" /\ mret = "Ok" /\ marg = <<y, x>>

\* C9: after a reveal of the non-mine cell (x,y) every cell other than (x,y)
\* has the value it had before the move; no neighbour is rewritten.
C9_RevealChangesOneCell ==
    \A c \in Cells(mine) :
        (Revealed(marg[2], marg[1]) /\ c # <<marg[2], marg[1]>>) =>
            At(mine, c) = At(mprev, c)

\* C10: after a reveal of the non-mine cell (x,y) the cell holds a count, and
\* the count is the number of mines the board had, when the move was made, in
\* the in-bounds cells of the 3x3 block centred on (x,y); with one mine on
\* that board it is 1 next to the mine and 0 elsewhere.
C10_RevealStoresProximity ==
    Revealed(marg[2], marg[1]) =>
        LET x == marg[2]
            y == marg[1]
            near == { c \in Mines(mprev) : InBlock(c, x, y) }
        IN  /\ At(mine, <<x, y>>) \in 0..8
            /\ At(mine, <<x, y>>) = Cardinality(near)
            /\ Cardinality(Mines(mprev)) = 1 =>
                  At(mine, <<x, y>>) = IF near # {} THEN 1 ELSE 0

\* a reveal diagonally next to a mine
C10_Witness ==
    /\ Revealed(marg[2], marg[1])
    /\ At(mine, <<marg[2], marg[1]>>) >= 1
    /\ \E c \in Mines(mprev) :
          Abs(c[1] - marg[2]) = 1 /\ Abs(c[2] - marg[1]) = 1

\* a mark move or a reveal move aimed at the in-bounds cell c has been handled
Marked(c) ==
    mop = "mark_square" /\ marg = <<c[2], c[1]>> /\ InBounds(mprev, c)
Hidden(b, c) == At(b, c) \in {-1, -10}    \* both are shown as an empty square

\* C11, as stated: a mark move flags the selected cell exactly when the cell
\* is hidden, mine or not: a hidden cell becomes flagged and the mines stay
\* the mines; a flagged or revealed cell is refused and the board unchanged.
C11_MarkFlagsHiddenCell ==
    \A c \in Cells(mprev) : Marked(c) =>
        IF Hidden(mprev, c)
        THEN /\ mret = "Ok"
             /\ At(mine, c) = 10
             /\ \A d \in Cells(mprev) : d # c => At(mine, d) = At(mprev, d)
        ELSE mret = "rejected" /\ mine = mprev

\* C12, as stated: a cell that is flagged when a reveal or mark move is made
\* is flagged after it.
C12_FlaggedStaysFlagged ==
    \A c \in Cells(mprev) :
        (mop \in {"make_move", "mark_square"} /\ At(mprev, c) = 10) =>
            At(mine, c) = 10

\* C13: a call of place_mines adds exactly floor(width*height/10) mines, on
\* cells that held none, so that k calls on a fresh board leave k times that.
C13_PlaceMinesAddsTenth ==
    mop = "place_mines" =>
        LET n == (mprev.width * mprev.height) \div 10 IN
        /\ Mines(mprev) \subseteq Mines(mine)
        /\ Cardinality(Mines(mine)) = Cardinality(Mines(mprev)) + n
        /\ Cardinality(Mines(mine)) = placed * n

\* the second call on a board of at least ten cells
C13_Witness ==
    /\ mop = "place_mines" /\ placed >= 2
    /\ Mines(mprev) # {} /\ Cardinality(Mines(mine)) >= 2

\* C17, as stated: no reveal or mark move changes which cells are mines, and
\* a reveal aimed at a mine loses.
C17_MinesAreFixed ==
    mop \in {"make_move", "mark_square"} =>
        /\ Mines(mine) = Mines(mprev)
        /\ \A c \in Mines(mprev) :
              (mop = "make_move" /\ marg = <<c[2], c[1]>>) => mret = "You lose"

\* ---- Chomp: the search and the order of positions ----------------------
\* (0,0) is playable and no other cell is
LostPosition(b) ==
    At(b, <<0, 0>>) /\ \A c \in Cells(b) : c # <<0, 0>> => ~At(b, c)
\* b without the cells of the L anchored at c
WithoutL(b, c) ==
    [b EXCEPT !.board =
        [j \in 1..b.height |->
           [i \in 1..b.width |->
              b.board[j][i] /\ ~InL(<<i - 1, j - 1>>, c[1], c[2])]]]

RECURSIVE MoverWins(_)
\* the player to move has a playable cell other than (0,0) whose removal
\* leaves the opponent without one
MoverWins(b) ==
    /\ ~LostPosition(b)
    /\ \E c \in Cells(b) : c # <<0, 0>> /\ At(b, c) /\ ~MoverWins(WithoutL(b, c))
WinningCells(b) ==
    { c \in Cells(b) : c # <<0, 0>> /\ At(b, c) /\ ~MoverWins(WithoutL(b, c)) }

\* C18: is_lost returns true exactly when (0,0) is true and every other cell
\* is false; with another cell true, or with every cell false, it returns false.
C18_IsLostIsOriginAlone ==
    op = "is_lost" =>
        /\ (ret = "true") <=> LostPosition(prev)
        /\ (\E c \in Cells(prev) : c # <<0, 0>> /\ At(prev, c)) => ret = "false"
        /\ (\A c \in Cells(prev) : ~At(prev, c)) => ret = "false"

\* is_lost asked on a board with no cell left
C18_Witness ==
    op = "is_lost" /\ ret = "false" /\ \A c \in Cells(prev) : ~At(prev, c)

\* C19: winning_move returns None where is_lost holds; otherwise the first
\* cell in row-major order that is true, is not (0,0) and whose chomp leaves a
\* position without a winning move, and None if there is no such cell.
C19_WinningMoveIsFirstForcedWin ==
    op = "winning_move" =>
        /\ LostPosition(prev) => out = None
        /\ (out = None) <=> (LostPosition(prev) \/ WinningCells(prev) = {})
        /\ out # None =>
              /\ out \in WinningCells(prev)
              /\ \A c \in WinningCells(prev) : RowMajor(prev, out) <= RowMajor(prev, c)

\* a search that passed over a playable cell before the one it returned
C19_Witness ==
    /\ op = "winning_move" /\ out # None
    /\ \E c \in Cells(prev) :
          /\ c # <<0, 0>> /\ At(prev, c)
          /\ RowMajor(prev, c) < RowMajor(prev, out)

\* C20: whatever the players and the AI do, a cell that is false stays
\* false, and the number of true cells does not grow.
C20_ChompIsMonotone ==
    /\ \A c \in Cells(prev) : ~At(prev, c) => ~At(game, c)
    /\ Cardinality({ c \in Cells(game) : At(game, c) })
          <= Cardinality({ c \in Cells(prev) : At(prev, c) })

\* an AI move on a board that had lost cells before
C20_Witness ==
    /\ op = "ai_make_move" /\ ret = "Some" /\ game # prev
    /\ \E c \in Cells(prev) : ~At(prev, c)

\* ---- Board<T>: properties ----------------------------------------------
\* grid was made by Board::new, isize_board or boolean_board
Constructed == ctor \in {"new", "isize_board", "boolean_board"}
\* the cells, when the last call was made, of the board it was made on
Before == IF gwho = "grid" THEN gsnap.grid ELSE gsnap.copy
\* the cells now of the board the last call was made on, and of the other
Now(who) == Rows(heap, IF who = "grid" THEN grid ELSE copy)
Other(who) == IF who = "grid" THEN "copy" ELSE "grid"

\* the rows of b are b.height rows of b.width cells
Rectangular(b) ==
    /\ Len(b.board) = b.height
    /\ \A j \in 1..Len(b.board) : Len(b.board[j]) = b.width

\* C14: a board made by new, isize_board or boolean_board has height rows of
\* width cells, each with the constructor's initial value, and get(x,y) on it
\* returns the cell when x < width and y < height, and None otherwise.  The
\* board get is called on has the rows its constructor made, whatever set,
\* chomp and the cell writes through iter_mut have stored in them; a board
\* whose rows a caller has resized through iter_mut is the matter of C21.
C14_ConstructorsAndGet ==
    Constructed =>
        /\ gop = ctor =>
              /\ Len(Now("grid").board) = grid.height
              /\ \A j \in 1..grid.height :
                    /\ Len(Now("grid").board[j]) = grid.width
                    /\ \A i \in 1..grid.width :
                          Now("grid").board[j][i] = InitialValue(ctor)
        /\ (gop = "get" /\ Rectangular(Before)) =>
              IF garg[1] < Before.width /\ garg[2] < Before.height
              THEN gout = <<Before.board[garg[2] + 1][garg[1] + 1]>>
              ELSE gout = None

\* get returned a cell that set had changed, off the diagonal of the board
C14_Witness ==
    /\ Constructed /\ gop = "get" /\ garg[1] # garg[2]
    /\ gout = <<OtherValue(ctor)>>

\* C15, as stated: set(x,y,v) with x < width and y < height makes get(x,y)
\* return v and leaves every other cell unchanged; set with (x,y) out of
\* bounds changes no cell; and set does not fail.
C15_SetWritesOneCell ==
    gop = "set" =>
        /\ gret = "ok"
        /\ IF garg[1] < Before.width /\ garg[2] < Before.height
           THEN /\ get(Now(gwho), garg[1], garg[2]) = <<garg[3]>>
                /\ \A c \in Cells(Before) : c # <<garg[1], garg[2]>> =>
                      get(Now(gwho), c[1], c[2]) = get(Before, c[1], c[2])
           ELSE Now(gwho) = Before

\* C16: a set or a chomp on a board, or a write or a resize of its rows
\* through iter_mut, leaves every cell of its clone, or of the board it was
\* cloned from, unchanged.
C16_CloneIsIndependent ==
    (copy # NoBoard /\ gop \in {"set", "chomp", "iter_mut"}) =>
        Now(Other(gwho)) = (IF gwho = "grid" THEN gsnap.copy ELSE gsnap.grid)

\* a call changed the clone and the board cloned still has its own cells
C16_Witness ==
    /\ copy # NoBoard /\ gop \in {"set", "chomp"} /\ gwho = "copy"
    /\ Now("copy") # gsnap.copy
    /\ Now("grid") # Now("copy")

\* ---- Board<T>: the shape of a board -------------------------------------
\* C21, as stated: every Board, however it was made and whatever was called
\* on it since (a resize of a row through iter_mut included), has exactly
\* height rows of exactly width cells.
C21_BoardIsRectangular ==
    /\ Rectangular(Rows(heap, grid))
    /\ Rectangular(Rows(heap, copy))

\* ---- Chomp: the AI's move ----------------------------------------------
TrueCells(b) == { c \in Cells(b) : At(b, c) }

\* C22, as stated: every call of ai_make_move returns, Some(()) or None,
\* after finitely many passes of its loop.  A pass is a function of the board
\* alone, so a call returns exactly when it never completes a second pass on
\* the board it made an earlier pass on.
C22_AiMakeMoveTerminates ==
    ~(op = "ai_make_move" /\ pc = "ai_loop" /\ passes >= 2 /\ game = prev)

\* C23, as stated: when ai_make_move returns Some(()) a cell that was true
\* is false, and a move of the player removes a cell too, so that the true
\* cells strictly decrease at every turn.
C23_AiMoveRemovesACell ==
    /\ (op = "ai_make_move" /\ ret = "Some") =>
          Cardinality(TrueCells(game)) < Cardinality(TrueCells(prev))
    /\ (op = "make_move" /\ ret = "moved") =>
          Cardinality(TrueCells(game)) < Cardinality(TrueCells(prev))
====
